---- MODULE Spec2Model ----
(***************************************************************************)
(* Model of the file-transfer server (FTServer.py), the container codec    *)
(* (archiver.py) and the byte protocol between them.                       *)
(*                                                                         *)
(* Bytes are their integer codes; byte strings are sequences of bytes.     *)
(* Spec       : FileServer.run with up to MaxConns client connections.     *)
(* CodecSpec  : Archiver.archive followed by Archiver.extract.             *)
(* DecodeSpec : Archiver.extract of an arbitrary container.                *)
(* ClientSpec : FTClient, from the archive it builds to the close.         *)
(***************************************************************************)
EXTENDS Integers, Sequences, FiniteSets, TLC

VARIABLES
    pc,           \* FileServer.run: "select", "dispatch", or the exception that ended it
    iter,         \* number of select() calls made so far
    read_list,    \* self.read_list, a list of sockets
    clients,      \* self.clients, socket -> per-connection dict
    readable,     \* sockets select() reported readable, not yet dispatched
    exceptional,  \* sockets select() reported exceptional, not yet dispatched
    closedSocks,  \* sockets on which sock.close() has been called
    peer,         \* the remote end of each connection: the bytes it sends, how many were received
    backlog,      \* connections queued on the listening socket
    handles,      \* file objects returned by open(): path, position, closed
    fs,           \* the working directory: path -> content
    sent,         \* bytes the server has sent on each connection
    log,          \* per connection, the calls made on its behalf, in order
    eof,          \* sockets on which recv has returned b''
    together,     \* pairs of connections that have been registered at the same time
    gone,         \* per closed connection, the reason and the state it was popped in
    apc,          \* Archiver: position of the archive/extract run
    job,          \* Archiver.archive: the file list, the file being read, the read offset
    result,       \* Archiver.extract: outcome
    dpc,          \* Archiver.extract of a container: the statement it is at
    dec,          \* Archiver.extract of a container: its locals, and how reads are delivered
    cpc,          \* FTClient: the statement it is at
    bytesSent,    \* FTClient: bytesSent
    wire          \* FTClient: the calls made on its socket, in order

vars == <<pc, iter, read_list, clients, readable, exceptional, closedSocks, peer,
          backlog, handles, fs, sent, log, eof, together, gone, apc, job, result,
          dpc, dec, cpc, bytesSent, wire>>

serverVars == <<pc, iter, read_list, clients, readable, exceptional, closedSocks,
                peer, backlog, handles, sent, log, eof, together, gone>>

codecVars == <<apc, job, result>>

decodeVars == <<dpc, dec>>

clientVars == <<cpc, bytesSent, wire>>

(***************************************************************************)
(* Bounds of the model                                                     *)
(***************************************************************************)
MaxConns == 2
MaxFiles == 2
\* bytes of archive output explored
MaxOut == 4200
\* select() calls explored
MaxIter == 4
\* sockets one select() call reports, counting both lists
MaxReady == 2
\* a recv ends within the first MaxCut bytes of the peer's stream or at its end
MaxCut == 7
\* bytes of content of the record whose truncations are decoded
MaxContent == 2

(***************************************************************************)
(* Program constants                                                       *)
(***************************************************************************)
RecvSize == 4096
ReadChunk == 4096
ExtractChunk == 4096
SendChunk == 4096
FieldWidth == 8

(***************************************************************************)
(* Bytes                                                                   *)
(***************************************************************************)
NL == 10
Slash == 47
Minus == 45
Plus == 43
Underscore == 95
NewPrefix == <<110, 101, 119, 95>>
Whitespace == {9, 10, 11, 12, 13, 28, 29, 30, 31, 32}

None == <<>>
Some(x) == <<x>>

Min(a, b) == IF a <= b THEN a ELSE b
Max(a, b) == IF a >= b THEN a ELSE b

Take(s, n) == SubSeq(s, 1, Min(n, Len(s)))
Drop(s, n) == SubSeq(s, Min(n, Len(s)) + 1, Len(s))

\* Python s[:r], r possibly negative
PySlicePrefix(s, r) == IF r >= 0 THEN Take(s, r) ELSE Take(s, Max(0, Len(s) + r))

IsDigit(b) == b \in 48..57

\* bytes.decode(): UTF-8; the model's byte alphabet is ASCII plus invalid bytes >= 128
Decodable(s) == \A i \in 1..Len(s) : s[i] < 128

StripTo(s, keep) ==
    IF keep = {} THEN <<>>
    ELSE SubSeq(s, CHOOSE i \in keep : \A j \in keep : i <= j,
                   CHOOSE i \in keep : \A j \in keep : i >= j)

\* str.strip()
Strip(s) == StripTo(s, {i \in 1..Len(s) : s[i] \notin Whitespace})

RECURSIVE DigitsVal(_, _)
DigitsVal(s, acc) ==
    IF s = <<>> THEN acc
    ELSE IF Head(s) = Underscore THEN DigitsVal(Tail(s), acc)
    ELSE DigitsVal(Tail(s), acc * 10 + (Head(s) - 48))

\* digits with single underscores between them
WellFormedDigits(d) ==
    /\ d # <<>>
    /\ IsDigit(d[1])
    /\ IsDigit(d[Len(d)])
    /\ \A i \in 1..Len(d) :
          \/ IsDigit(d[i])
          \/ d[i] = Underscore /\ IsDigit(d[i - 1]) /\ IsDigit(d[i + 1])

ParseSigned(sign, d) ==
    IF ~WellFormedDigits(d) THEN [ok |-> FALSE, val |-> 0]
    ELSE [ok |-> TRUE, val |-> IF sign = Minus THEN 0 - DigitsVal(d, 0) ELSE DigitsVal(d, 0)]

ParseStripped(t) ==
    IF t # <<>> /\ t[1] \in {Minus, Plus} THEN ParseSigned(t[1], Tail(t))
    ELSE ParseSigned(Plus, t)

\* int(str): surrounding whitespace, an optional sign, digits with single
\* underscores between them
ParseInt(s) == ParseStripped(Strip(s))

RECURSIVE Digits(_)
Digits(n) == IF n < 10 THEN <<48 + n>> ELSE Append(Digits(n \div 10), 48 + (n % 10))

\* f"{n:08d}" for n >= 0: at least FieldWidth characters, zero-padded on the left
Fmt08(n) ==
    LET d == Digits(n)
    IN  [i \in 1..Max(0, FieldWidth - Len(d)) |-> 48] \o d

HasNL(s) == \E i \in 1..Len(s) : s[i] = NL

\* the index of the first newline of s
FirstNL(s) == CHOOSE i \in 1..Len(s) : s[i] = NL /\ \A j \in 1..(i - 1) : s[j] # NL

BeforeNL(s) == SubSeq(s, 1, FirstNL(s) - 1)

AfterNL(s) == SubSeq(s, FirstNL(s) + 1, Len(s))

SplitOnce(s) == IF HasNL(s) THEN <<BeforeNL(s), AfterNL(s)>> ELSE <<s>>

\* bytes.split(b'\n', 2)
Split2(buffer) ==
    IF HasNL(buffer) THEN <<BeforeNL(buffer)>> \o SplitOnce(AfterNL(buffer))
    ELSE <<buffer>>

\* os.path.basename
Basename(path) ==
    LET sl == {i \in 1..Len(path) : path[i] = Slash}
    IN  IF sl = {} THEN path
        ELSE SubSeq(path, (CHOOSE i \in sl : \A j \in sl : i >= j) + 1, Len(path))

(***************************************************************************)
(* The file system                                                         *)
(***************************************************************************)
\* os.read(fd, n) on a regular file at offset pos
OsRead(data, pos, n) == SubSeq(data, Min(pos, Len(data)) + 1, Min(pos + n, Len(data)))

\* the subdirectories of the working directory: new_d
Dirs == {NewPrefix \o <<100>>}

\* os.path.dirname
Dirname(path) ==
    LET sl == {i \in 1..Len(path) : path[i] = Slash}
    IN  IF sl = {} THEN <<>>
        ELSE SubSeq(path, 1, (CHOOSE i \in sl : \A j \in sl : i >= j) - 1)

\* open(path, 'wb') / os.open(path, O_WRONLY|O_CREAT|O_TRUNC): a file can be
\* created in the working directory or in a directory that exists
CanCreate(path) ==
    /\ \A i \in 1..Len(path) : path[i] # 0
    /\ Dirname(path) \in Dirs \cup {<<>>}
    /\ Basename(path) # <<>>

FsPut(fsys, path, content) ==
    [q \in DOMAIN fsys \cup {path} |-> IF q = path THEN content ELSE fsys[q]]

\* write(chunk) through a handle positioned at pos
FsWriteAt(fsys, path, pos, chunk) ==
    LET old == IF path \in DOMAIN fsys THEN fsys[path] ELSE <<>>
        before == IF Len(old) >= pos THEN Take(old, pos)
                  ELSE old \o [i \in 1..(pos - Len(old)) |-> 0]
    IN  FsPut(fsys, path, before \o chunk \o Drop(old, pos + Len(chunk)))

(***************************************************************************)
(* Archiver.extract                                                        *)
(***************************************************************************)
\* the copy loop of extract: reads of at most ExtractChunk bytes until
\* `remaining` bytes are copied or the source is exhausted
RECURSIVE CopyLoop(_, _, _, _)
CopyLoop(src, pos, remaining, written) ==
    IF remaining > 0
    THEN LET chunk == OsRead(src, pos, Min(remaining, ExtractChunk))
         IN  IF chunk = <<>> THEN [eof |-> TRUE, written |-> written]
             ELSE CopyLoop(src, pos + Len(chunk), remaining - Len(chunk), written \o chunk)
    ELSE [eof |-> FALSE, written |-> written]

Outcome(o, f, n) == [outcome |-> o, fs |-> f, name |-> n]

\* the copy taken as complete when the source ends before `filesize` bytes
ExtractCopied_IgnoreEOF(fsys, filename, copy) ==
    Outcome("ok", FsPut(fsys, filename, copy.written), Some(filename))

\* fd_out = os.open(filename, ...) and the copy of `filesize` bytes into it.
\* On a short source the handler closes fd_out and exits; the finally clause
\* closes fd_out again and its OSError replaces the SystemExit
ExtractCopied(fsys, filename, copy) ==
    Outcome(IF copy.eof THEN "OSError" ELSE "ok", FsPut(fsys, filename, copy.written),
            Some(filename))

ExtractContent(fsys, archive_path, filesize, start, filename) ==
    IF ~CanCreate(filename) THEN Outcome("SystemExit", fsys, None)
    ELSE ExtractCopied(fsys, filename,
                       CopyLoop(FsPut(fsys, filename, <<>>)[archive_path], start, filesize, <<>>))

\* filename_byte = os.read(fd_in, filename_len)
ExtractName(fsys, archive_path, filesize, filename_byte) ==
    IF Len(filename_byte) < 1 THEN Outcome("SystemExit", fsys, None)
    ELSE IF ~Decodable(filename_byte) THEN Outcome("UnicodeDecodeError", fsys, None)
    ELSE ExtractContent(fsys, archive_path, filesize, 2 * FieldWidth + Len(filename_byte),
                        NewPrefix \o filename_byte)

\* filename_len = int(filename_len_byte.decode())
ExtractNameLen(fsys, archive_path, filesize, filename_len) ==
    IF ~filename_len.ok THEN Outcome("ValueError: int", fsys, None)
    ELSE IF filename_len.val < 0 THEN Outcome("OSError", fsys, None)
    ELSE ExtractName(fsys, archive_path, filesize,
                     OsRead(fsys[archive_path], 2 * FieldWidth, filename_len.val))

\* filename_len_byte = os.read(fd_in, 8)
ExtractNameLenField(fsys, archive_path, filesize, filename_len_byte) ==
    IF ~filesize.ok THEN Outcome("ValueError: int", fsys, None)
    ELSE IF Len(filename_len_byte) < FieldWidth THEN Outcome("SystemExit", fsys, None)
    ELSE IF ~Decodable(filename_len_byte) THEN Outcome("UnicodeDecodeError", fsys, None)
    ELSE ExtractNameLen(fsys, archive_path, filesize.val, ParseInt(filename_len_byte))

\* filesize_byte = os.read(fd_in, 8)
ExtractSizeField(fsys, archive_path, filesize_byte) ==
    IF Len(filesize_byte) < FieldWidth THEN Outcome("SystemExit", fsys, None)
    ELSE IF ~Decodable(filesize_byte) THEN Outcome("UnicodeDecodeError", fsys, None)
    ELSE ExtractNameLenField(fsys, archive_path, ParseInt(filesize_byte),
                             OsRead(fsys[archive_path], FieldWidth, FieldWidth))

\* Archiver.extract(archive_path): the outcome is "ok" (extract returns),
\* "SystemExit" (sys.exit(1)) or the exception that leaves extract; fs is the
\* file system it leaves behind, name the file it created
Extract(fsys, archive_path) ==
    IF archive_path \notin DOMAIN fsys THEN Outcome("SystemExit", fsys, None)
    ELSE ExtractSizeField(fsys, archive_path, OsRead(fsys[archive_path], 0, FieldWidth))

(***************************************************************************)
(* FTClient: what a peer sends                                             *)
(***************************************************************************)
\* a metadata line with the size before the name
Metadata_SizeFirst(archiveName, fileSize) ==
    Digits(fileSize) \o <<NL>> \o archiveName \o <<NL>>

\* f"{archiveName}\n{fileSize}\n"
Metadata(archiveName, fileSize) == archiveName \o <<NL>> \o Digits(fileSize) \o <<NL>>

\* a header with its two length fields in the other order
RecordHeader_Swapped(filesize, filename) ==
    Fmt08(Len(filename)) \o Fmt08(filesize) \o filename

\* the header Archiver.archive writes for a file: its size, the length of its
\* name, its name
RecordHeader(filesize, filename) ==
    Fmt08(filesize) \o Fmt08(Len(filename)) \o filename

\* one record of a container as Archiver.archive writes it
Record(filename, content) == RecordHeader(Len(content), filename) \o content

\* a session of FTClient: the metadata line, then the archive's bytes
Session(archiveName, archive) == Metadata(archiveName, Len(archive)) \o archive

\* the byte streams of sessions of FTClient
Sessions == { Session(<<97>>, Record(<<102>>, <<120>>)) }

\* metadata lines whose size field is not a number
MalformedHeaders == { <<97, NL, 120, NL>> }

\* the byte streams a peer may send: sessions of FTClient and streams that
\* are not
Scripts ==
    Sessions \cup MalformedHeaders \cup
    { Session(<<98>>, Record(<<103>>, <<>>)) \o <<122, 122>>,
      <<98, NL, 48, NL>>,
      <<97, NL, Minus, 49, NL, 120, 121, 122>>,
      <<97, NL, 50, NL, 120, 121>>,
      <<100, Slash, 97, NL, 48, NL>>,
      Metadata(<<97>>, 18) \o Fmt08(5) \o Fmt08(1) \o <<102, 120>> }

(***************************************************************************)
(* FileServer                                                              *)
(***************************************************************************)
LISTEN == 0
Conns == 1..MaxConns

Remove(list, x) ==
    LET i == CHOOSE k \in 1..Len(list) : list[k] = x /\ \A j \in 1..(k - 1) : list[j] # x
    IN  SubSeq(list, 1, i - 1) \o SubSeq(list, i + 1, Len(list))

InList(list, x) == \E k \in 1..Len(list) : list[k] = x

\* the state the handlers of the server act on
World ==
    [clients |-> clients, read_list |-> read_list, closedSocks |-> closedSocks,
     handles |-> handles, fs |-> fs, sent |-> sent, log |-> log, gone |-> gone,
     exc |-> "none"]

Raise(w, e) == [w EXCEPT !.exc = e]

Logged(w, sock, event) == [w EXCEPT !.log[sock] = Append(@, event)]

\* file.close(): releases the handle; no effect on a closed file. `saved` is
\* what the file holds when its handle is released
FileClose(w, sock, id) ==
    IF w.handles[id].closed THEN w
    ELSE Logged([w EXCEPT !.handles[id].closed = TRUE,
                          !.handles[id].saved = w.fs[w.handles[id].path]],
                sock, "fclose")

\* what is known of a connection once self.clients.pop(sock) has dropped it
Popped(reason, client) ==
    [reason |-> reason, state |-> client.state, file_size |-> client.file_size,
     received |-> client.received, fd_out |-> client.fd_out]

\* if client.get("fd_out"): client["fd_out"].close()
ReleaseFile(w, sock) ==
    IF sock \in DOMAIN w.clients /\ w.clients[sock].fd_out # None
    THEN FileClose(w, sock, w.clients[sock].fd_out[1])
    ELSE w

\* sock.close(); self.read_list.remove(sock); self.clients.pop(sock, None)
Deregister(w, sock, reason) ==
    IF ~InList(w.read_list, sock)
    THEN [w EXCEPT !.closedSocks = @ \cup {sock}, !.exc = "ValueError: remove"]
    ELSE IF sock \notin DOMAIN w.clients
    THEN [w EXCEPT !.closedSocks = @ \cup {sock}, !.read_list = Remove(@, sock)]
    ELSE [w EXCEPT
            !.closedSocks = @ \cup {sock},
            !.read_list = Remove(@, sock),
            !.clients = [s \in DOMAIN @ \ {sock} |-> @[s]],
            !.gone[sock] = Some(Popped(reason, w.clients[sock])),
            !.log[sock] = Append(@, "close")]

\* close_connection without the close of fd_out
close_connection_LeakFile(w, sock, reason) == Deregister(w, sock, reason)

\* FileServer.close_connection
close_connection(w, sock, reason) == Deregister(ReleaseFile(w, sock), sock, reason)

\* client['fd_out'] = open(client['archive_name'], 'wb')
OpenOutput(w, sock, archive_name) ==
    IF ~CanCreate(archive_name) THEN Raise(w, "OSError")
    ELSE Logged([w EXCEPT
                    !.clients[sock].fd_out = Some(sock),
                    !.fs = FsPut(@, archive_name, <<>>),
                    !.handles = [h \in DOMAIN @ \cup {sock} |->
                                    IF h = sock
                                    THEN [path |-> archive_name, pos |-> 0, closed |-> FALSE,
                                          saved |-> <<>>]
                                    ELSE @[h]]],
                sock, "open")

\* the header parsed and the file opened with the state left at 'header'
HeaderSize_KeepState(w, sock, archive_name, file_size, rest) ==
    IF ~file_size.ok THEN Raise(w, "ValueError: int")
    ELSE OpenOutput([w EXCEPT !.clients[sock].file_size = Some(file_size.val),
                              !.clients[sock].buffer = rest],
                    sock, archive_name)

\* client['file_size'] = int(size.decode().strip()), then the buffer and state
HeaderSize(w, sock, archive_name, file_size, rest) ==
    IF ~file_size.ok THEN Raise(w, "ValueError: int")
    ELSE OpenOutput([w EXCEPT !.clients[sock].file_size = Some(file_size.val),
                              !.clients[sock].buffer = rest,
                              !.clients[sock].state = "data"],
                    sock, archive_name)

\* client['archive_name'] = f"new_{name.decode().strip()}"
HeaderName(w, sock, archive_name, size, rest) ==
    IF ~Decodable(size)
    THEN Raise([w EXCEPT !.clients[sock].archive_name = Some(archive_name)], "UnicodeDecodeError")
    ELSE HeaderSize([w EXCEPT !.clients[sock].archive_name = Some(archive_name)],
                    sock, archive_name, ParseInt(size), rest)

\* name, size, rest = parts
HeaderParts(w, sock, parts) ==
    IF Len(parts) < 3 THEN Raise(w, "ValueError: unpack")
    ELSE IF ~Decodable(parts[1]) THEN Raise(w, "UnicodeDecodeError")
    ELSE HeaderName(w, sock, NewPrefix \o Strip(parts[1]), parts[2], parts[3])

\* FileServer.process_header
process_header(w, sock) == HeaderParts(w, sock, Split2(w.clients[sock].buffer))

\* the acknowledgment sent whatever the extraction did
Acknowledge_Always(w, sock, archive_name, ex, sendOK) ==
    IF ~sendOK THEN Raise([w EXCEPT !.fs = ex.fs], "OSError")
    ELSE IF ex.outcome # "ok"
    THEN Raise(Logged([w EXCEPT !.fs = ex.fs, !.sent[sock] = Append(@, archive_name)],
                      sock, "ack"),
               ex.outcome)
    ELSE close_connection(
            Logged([w EXCEPT !.fs = ex.fs, !.sent[sock] = Append(@, archive_name),
                             !.log[sock] = Append(@, "extracted")],
                   sock, "ack"),
            sock, "Transfer complete")

\* after Archiver().extract: sock.sendall of the acknowledgment, then
\* close_connection; sendOK tells whether sendall succeeds
Acknowledge(w, sock, archive_name, ex, sendOK) ==
    IF ex.outcome # "ok" THEN Raise([w EXCEPT !.fs = ex.fs], ex.outcome)
    ELSE IF ~sendOK
    THEN Raise([w EXCEPT !.fs = ex.fs, !.log[sock] = Append(@, "extracted")], "OSError")
    ELSE close_connection(
            Logged([w EXCEPT !.fs = ex.fs, !.sent[sock] = Append(@, archive_name),
                             !.log[sock] = Append(@, "extracted")],
                   sock, "ack"),
            sock, "Transfer complete")

\* client['fd_out'].close(); Archiver().extract(client['archive_name'])
ExtractSaved(w, sock, archive_name, sendOK) ==
    Acknowledge(w, sock, archive_name, Extract(w.fs, archive_name), sendOK)

\* if client['received'] >= client['file_size']
Complete(w, sock, sendOK) ==
    IF w.clients[sock].received >= w.clients[sock].file_size[1]
    THEN ExtractSaved(Logged(FileClose(w, sock, w.clients[sock].fd_out[1]), sock, "extract"),
                      sock, w.clients[sock].archive_name[1], sendOK)
    ELSE w

\* the write counted on every registered connection
Written_Shared(w, sock, id, chunk) ==
    IF chunk = <<>> THEN w
    ELSE [w EXCEPT
            !.fs = FsWriteAt(@, w.handles[id].path, w.handles[id].pos, chunk),
            !.handles[id].pos = @ + Len(chunk),
            !.clients = [c \in DOMAIN @ |->
                            IF c = sock
                            THEN [@[c] EXCEPT !.received = @ + Len(chunk),
                                              !.buffer = Drop(@, Len(chunk))]
                            ELSE [@[c] EXCEPT !.received = @ + Len(chunk)]]]

\* client['fd_out'].write(chunk) and the count and buffer updates
Written(w, sock, id, chunk) ==
    IF chunk = <<>> THEN w
    ELSE [w EXCEPT
            !.fs = FsWriteAt(@, w.handles[id].path, w.handles[id].pos, chunk),
            !.handles[id].pos = @ + Len(chunk),
            !.clients[sock].received = @ + Len(chunk),
            !.clients[sock].buffer = Drop(@, Len(chunk))]

WriteChunk(w, sock, chunk, writeOK, sendOK) ==
    IF chunk # <<>> /\ ~writeOK THEN Raise(w, "OSError")
    ELSE Complete(Written(w, sock, w.clients[sock].fd_out[1], chunk), sock, sendOK)

\* FileServer.process_data; writeOK and sendOK tell whether fd_out.write and
\* sock.sendall succeed
process_data(w, sock, writeOK, sendOK) ==
    WriteChunk(w, sock,
               PySlicePrefix(w.clients[sock].buffer,
                             w.clients[sock].file_size[1] - w.clients[sock].received),
               writeOK, sendOK)

\* except Exception as e: self.close_connection(sock, f"Error: {e}");
\* SystemExit is not an Exception and leaves the handler
Caught(w, sock) ==
    IF w.exc \in {"none", "SystemExit"} THEN w
    ELSE close_connection([w EXCEPT !.exc = "none"], sock, w.exc)

\* if client['state'] == 'data': self.process_data(sock, client)
DataState(w, sock, writeOK, sendOK) ==
    IF w.exc = "none" /\ w.clients[sock].state = "data"
    THEN process_data(w, sock, writeOK, sendOK)
    ELSE w

\* if client['state'] == 'header': self.process_header(sock, client)
HeaderState(w, sock) ==
    IF w.clients[sock].state = "header" THEN process_header(w, sock) ELSE w

\* the try block of handle_client once data has arrived
Received(w, sock, data, writeOK, sendOK) ==
    DataState(HeaderState([w EXCEPT !.clients[sock].buffer = @ \o data], sock),
              sock, writeOK, sendOK)

\* handle_client without the check for an empty recv
handle_client_IgnoreEOF(w, sock, data, writeOK, sendOK) ==
    Caught(Received(w, sock, data, writeOK, sendOK), sock)

\* FileServer.handle_client; data is what sock.recv(4096) returns
handle_client(w, sock, data, writeOK, sendOK) ==
    IF data = <<>> THEN Caught(Raise(w, "ConnectionError"), sock)
    ELSE Caught(Received(w, sock, data, writeOK, sendOK), sock)

FreshClient(addr) ==
    [state |-> "header", buffer |-> <<>>, archive_name |-> None, file_size |-> None,
     received |-> 0, fd_out |-> None, addr |-> addr]

\* the sockets of `list` that are in S, in the order of `list`
Reported(list, S) == SelectSeq(list, LAMBDA s : s \in S)

IdlePeer == [status |-> "idle", script |-> <<>>, pos |-> 0]
\* the peer of a socket the server has closed: what it had left to send is lost
ClosedPeer(p) == [status |-> "closed", script |-> p.script, pos |-> 0]

\* what the handlers leave behind, and where FileServer.run continues: an
\* exception that leaves a handler leaves run
Commit(w, rd, ex, pr) ==
    /\ peer' = [c \in Conns |-> IF c \in w.closedSocks THEN ClosedPeer(pr[c]) ELSE pr[c]]
    /\ clients' = w.clients
    /\ read_list' = w.read_list
    /\ closedSocks' = w.closedSocks
    /\ handles' = w.handles
    /\ fs' = w.fs
    /\ sent' = w.sent
    /\ log' = w.log
    /\ gone' = w.gone
    /\ readable' = rd
    /\ exceptional' = ex
    /\ pc' = IF w.exc # "none" THEN w.exc
             ELSE IF rd = <<>> /\ ex = <<>> THEN "select" ELSE "dispatch"

\* a peer connects: FTClient's socket.create_connection, or any other program's
Connect(c) ==
    /\ pc = "select"
    /\ LISTEN \notin closedSocks
    /\ peer[c].status = "idle"
    /\ \A d \in Conns : d < c => peer[d].status # "idle"
    /\ peer' = [peer EXCEPT ![c].status = "queued"]
    /\ backlog' = Append(backlog, c)
    /\ UNCHANGED <<pc, iter, read_list, clients, readable, exceptional, closedSocks,
                   handles, fs, sent, log, eof, together, gone, codecVars, decodeVars, clientVars>>

\* select.select(self.read_list, [], self.read_list) returns
Select ==
    /\ pc = "select"
    /\ iter < MaxIter
    /\ iter' = iter + 1
    /\ \E R \in SUBSET {read_list[i] : i \in 1..Len(read_list)} :
       \E E \in SUBSET {read_list[i] : i \in 1..Len(read_list)} :
          /\ R \cup E # {}
          /\ Cardinality(R) + Cardinality(E) <= MaxReady
          /\ LISTEN \in R => backlog # <<>>
          /\ readable' = Reported(read_list, R)
          /\ exceptional' = Reported(read_list, E)
    /\ pc' = "dispatch"
    /\ UNCHANGED <<read_list, clients, closedSocks, peer, backlog, handles, fs,
                   sent, log, eof, together, gone, codecVars, decodeVars, clientVars>>

\* for sock in readable: sock is self.server_socket
AcceptConnection ==
    /\ pc = "dispatch"
    /\ readable # <<>>
    /\ Head(readable) = LISTEN
    /\ LET conn == Head(backlog)
           w == [World EXCEPT
                   !.read_list = Append(@, conn),
                   !.clients = [s \in DOMAIN @ \cup {conn} |->
                                   IF s = conn THEN FreshClient(conn) ELSE @[s]]]
       IN  /\ backlog' = Tail(backlog)
           /\ together' = together \cup {{conn, s} : s \in DOMAIN clients}
           /\ Commit(w, Tail(readable), exceptional, [peer EXCEPT ![conn].status = "accepted"])
    /\ UNCHANGED <<iter, eof, codecVars, decodeVars, clientVars>>

\* the lengths sock.recv(4096) may return when the peer has `left` bytes to
\* send: 0 when the peer has closed its end
RecvLens(pos, left) ==
    {0} \cup {n \in 1..Min(RecvSize, left) : pos + n <= MaxCut \/ n = left}

\* for sock in readable: an existing client
HandleClient(sock) ==
    /\ pc = "dispatch"
    /\ readable # <<>>
    /\ Head(readable) = sock
    /\ \E script \in (IF peer[sock].status = "accepted" THEN Scripts ELSE {peer[sock].script}) :
       \E n \in RecvLens(peer[sock].pos, Len(script) - peer[sock].pos) :
       \E io \in {<<TRUE, TRUE>>, <<FALSE, TRUE>>, <<TRUE, FALSE>>} :
          LET data == SubSeq(script, peer[sock].pos + 1, peer[sock].pos + n)
              writeOK == io[1]
              sendOK == io[2]
          IN  /\ eof' = IF data = <<>> THEN eof \cup {sock} ELSE eof
              /\ Commit(handle_client(World, sock, data, writeOK, sendOK),
                        Tail(readable), exceptional,
                        [peer EXCEPT ![sock] = [status |-> "sending", script |-> script,
                                                pos |-> peer[sock].pos + n]])
    /\ UNCHANGED <<iter, backlog, together, codecVars, decodeVars, clientVars>>

\* for sock in exceptional
CloseExceptional ==
    /\ pc = "dispatch"
    /\ readable = <<>>
    /\ exceptional # <<>>
    /\ Commit(close_connection(World, Head(exceptional), "Exceptional condition"),
              readable, Tail(exceptional), peer)
    /\ UNCHANGED <<iter, backlog, eof, together, codecVars, decodeVars, clientVars>>

ServerIdle ==
    /\ pc = "select"
    /\ iter = 0
    /\ read_list = <<LISTEN>>
    /\ clients = [s \in {} |-> FreshClient(s)]
    /\ readable = <<>>
    /\ exceptional = <<>>
    /\ closedSocks = {}
    /\ peer = [c \in Conns |-> IdlePeer]
    /\ backlog = <<>>
    /\ handles = [h \in {} |-> [path |-> <<>>, pos |-> 0, closed |-> FALSE, saved |-> <<>>]]
    /\ sent = [c \in Conns |-> <<>>]
    /\ log = [c \in Conns |-> <<>>]
    /\ eof = {}
    /\ together = {}
    /\ gone = [c \in Conns |-> None]

CodecIdle ==
    /\ apc = "idle"
    /\ job = [files |-> <<>>, index |-> 0, offset |-> 0]
    /\ result = "none"

\* the locals of a run of Archiver.extract
DecodeLocals(src, short) ==
    [src |-> src, short |-> short, pos |-> 0, filesize |-> 0, filename_len |-> 0,
     filename |-> <<>>, remaining |-> 0, outcome |-> "none"]

DecodeIdle ==
    /\ dpc = "idle"
    /\ dec = DecodeLocals(<<>>, FALSE)

ClientIdle ==
    /\ cpc = "idle"
    /\ bytesSent = 0
    /\ wire = <<>>

Init ==
    /\ ServerIdle
    /\ fs = [q \in {} |-> <<>>]
    /\ CodecIdle
    /\ DecodeIdle
    /\ ClientIdle

Next ==
    \/ \E c \in Conns : Connect(c)
    \/ Select
    \/ AcceptConnection
    \/ \E sock \in Conns : HandleClient(sock)
    \/ CloseExceptional

Spec == Init /\ [][Next]_vars

(***************************************************************************)
(* Archiver.archive, then Archiver.extract of what it wrote                *)
(***************************************************************************)
\* the sender's files: the bytes of a file are `data` followed by zero bytes
\* up to st_size (a file extended by truncate)
Disk ==
    { [path |-> <<102>>, data |-> <<>>, st_size |-> 0],
      [path |-> <<100, Slash, 103>>, data |-> <<120, 121>>, st_size |-> 2],
      [path |-> <<104>>, data |-> <<122>>, st_size |-> 4097],
      [path |-> <<112>>, data |-> <<>>, st_size |-> 99999999],
      [path |-> <<113>>, data |-> <<>>, st_size |-> 100000000] }

\* a path that names no file
MissingPath == <<109>>

InputPaths == {f.path : f \in Disk} \cup {MissingPath}

ArchivePath == <<116>>

IsFile(path) == \E f \in Disk : f.path = path

FileAt(path) == CHOOSE f \in Disk : f.path = path

\* os.read(fd, n) on the file at `offset`
FileRead(f, offset, n) ==
    [i \in 1..Max(0, Min(n, f.st_size - offset)) |->
        IF offset + i <= Len(f.data) THEN f.data[offset + i] ELSE 0]

FileLists ==
    UNION { {l \in [1..n -> InputPaths] : \A i, j \in 1..n : i # j => l[i] # l[j]}
            : n \in 1..MaxFiles }

\* os.open(output_path, O_WRONLY | O_CREAT | O_TRUNC)
ArchiveOpen ==
    /\ apc = "start"
    /\ fs' = FsPut(fs, ArchivePath, <<>>)
    /\ apc' = "next"
    /\ UNCHANGED <<job, result, serverVars, decodeVars, clientVars>>

\* for file in files: not os.path.isfile(file)
ArchiveMissing ==
    /\ apc = "next"
    /\ job.index < Len(job.files)
    /\ ~IsFile(job.files[job.index + 1])
    /\ apc' = "SystemExit"
    /\ UNCHANGED <<job, result, fs, serverVars, decodeVars, clientVars>>

\* for file in files: the header of the next file
ArchiveHeader ==
    /\ apc = "next"
    /\ job.index < Len(job.files)
    /\ IsFile(job.files[job.index + 1])
    /\ LET file == job.files[job.index + 1]
           filename == Basename(file)
           filesize == FileAt(file).st_size
       IN  fs' = FsWriteAt(fs, ArchivePath, Len(fs[ArchivePath]),
                           RecordHeader(filesize, filename))
    /\ job' = [job EXCEPT !.index = @ + 1, !.offset = 0]
    /\ apc' = "read"
    /\ UNCHANGED <<result, serverVars, decodeVars, clientVars>>

\* chunk = os.read(fd, 4096); os.write(out_fd, chunk)
ArchiveRead ==
    /\ apc = "read"
    /\ LET chunk == FileRead(FileAt(job.files[job.index]), job.offset, ReadChunk)
       IN  /\ chunk # <<>>
           /\ Len(fs[ArchivePath]) + Len(chunk) <= MaxOut
           /\ fs' = FsWriteAt(fs, ArchivePath, Len(fs[ArchivePath]), chunk)
           /\ job' = [job EXCEPT !.offset = @ + Len(chunk)]
    /\ UNCHANGED <<apc, result, serverVars, decodeVars, clientVars>>

\* if not chunk: break
ArchiveEOF ==
    /\ apc = "read"
    /\ FileRead(FileAt(job.files[job.index]), job.offset, ReadChunk) = <<>>
    /\ apc' = "next"
    /\ UNCHANGED <<job, result, fs, serverVars, decodeVars, clientVars>>

\* the for loop is over: archive returns
ArchiveDone ==
    /\ apc = "next"
    /\ job.index = Len(job.files)
    /\ apc' = "archived"
    /\ UNCHANGED <<job, result, fs, serverVars, decodeVars, clientVars>>

\* Archiver().extract of the archive just written
ExtractArchive ==
    /\ apc = "archived"
    /\ LET ex == Extract(fs, ArchivePath)
       IN  /\ fs' = ex.fs
           /\ result' = ex.outcome
    /\ apc' = "extracted"
    /\ UNCHANGED <<job, serverVars, decodeVars, clientVars>>

CodecInit ==
    /\ ServerIdle
    /\ fs = [q \in {} |-> <<>>]
    /\ apc = "start"
    /\ \E files \in FileLists : job = [files |-> files, index |-> 0, offset |-> 0]
    /\ result = "none"
    /\ DecodeIdle
    /\ ClientIdle

CodecNext ==
    \/ ArchiveOpen
    \/ ArchiveMissing
    \/ ArchiveHeader
    \/ ArchiveRead
    \/ ArchiveEOF
    \/ ArchiveDone
    \/ ExtractArchive

CodecSpec == CodecInit /\ [][CodecNext]_vars

(***************************************************************************)
(* Archiver.extract of an arbitrary container, statement by statement      *)
(***************************************************************************)
\* the content of the record the truncated containers are cut from
Payload == [i \in 1..MaxContent |-> 119 + i]

\* a field that starts with a sign
SignedField(sign, n) == <<sign>> \o SubSeq(Fmt08(n), 2, FieldWidth)

\* a field that ends with a letter
LetterField == SubSeq(Fmt08(0), 2, FieldWidth) \o <<120>>

Prefixes(c) == {SubSeq(c, 1, n) : n \in 0..Len(c)}

\* the containers extract is run on: every truncation of a one-record
\* container, a two-record container, and records whose fields or name are
\* not what Archiver.archive writes
Containers ==
    Prefixes(Record(<<102>>, Payload)) \cup
    { Record(<<102>>, <<120>>) \o Record(<<103>>, <<>>),
      Record(<<102, 103>>, <<120>>),
      SignedField(Minus, 5) \o Fmt08(1) \o <<102>>,
      SignedField(Minus, 1) \o Fmt08(1) \o <<102, 120>>,
      SignedField(Plus, 1) \o Fmt08(1) \o <<102, 120>>,
      Fmt08(0) \o SignedField(Minus, 1) \o <<102>>,
      LetterField \o Fmt08(1) \o <<102>>,
      Fmt08(0) \o LetterField \o <<102>>,
      Fmt08(0) \o Fmt08(5) \o <<102, 103>>,
      Fmt08(1) \o Fmt08(5) \o <<102, 103>>,
      <<200>> \o SubSeq(Fmt08(0), 2, FieldWidth) \o Fmt08(1) \o <<102>>,
      Fmt08(0) \o Fmt08(1) \o <<200>>,
      Fmt08(0) \o Fmt08(3) \o <<100, Slash, 103>> }

\* what os.read(fd, n) may return at offset pos when reads may be short: all
\* that is asked for and present, or one byte of it
Deliveries(data, pos, n) == {OsRead(data, pos, k) : k \in {Min(1, n), n}}

Fail(d, outcome) == [d EXCEPT !.outcome = outcome]

\* where extract goes on after a statement: it has ended once it has an outcome
Then(d, stmt) == IF d.outcome = "none" THEN stmt ELSE "done"

\* filesize = int(filesize_byte.decode())
SizeParsed(d, filesize) ==
    IF ~filesize.ok THEN Fail(d, "ValueError: int")
    ELSE [d EXCEPT !.filesize = filesize.val, !.pos = @ + FieldWidth]

\* filesize_byte = os.read(fd_in, 8) and its length check
SizeRead(d, filesize_byte) ==
    IF Len(filesize_byte) < FieldWidth THEN Fail(d, "SystemExit")
    ELSE IF ~Decodable(filesize_byte) THEN Fail(d, "UnicodeDecodeError")
    ELSE SizeParsed(d, ParseInt(filesize_byte))

\* filename_len = int(filename_len_byte.decode())
NameLenParsed(d, filename_len) ==
    IF ~filename_len.ok THEN Fail(d, "ValueError: int")
    ELSE [d EXCEPT !.filename_len = filename_len.val, !.pos = @ + FieldWidth]

\* filename_len_byte = os.read(fd_in, 8) and its length check
NameLenRead(d, filename_len_byte) ==
    IF Len(filename_len_byte) < FieldWidth THEN Fail(d, "SystemExit")
    ELSE IF ~Decodable(filename_len_byte) THEN Fail(d, "UnicodeDecodeError")
    ELSE NameLenParsed(d, ParseInt(filename_len_byte))

\* filename_byte = os.read(fd_in, filename_len), its check, and the new name
NameRead(d, filename_byte) ==
    IF Len(filename_byte) < 1 THEN Fail(d, "SystemExit")
    ELSE IF ~Decodable(filename_byte) THEN Fail(d, "UnicodeDecodeError")
    ELSE [d EXCEPT !.filename = NewPrefix \o filename_byte, !.pos = @ + Len(filename_byte)]

\* extract on a regular file: every read returns all that is asked for and present
DecodeWhole ==
    /\ dpc = "start"
    /\ ~dec.short
    /\ LET ex == Extract(fs, ArchivePath)
       IN  /\ fs' = ex.fs
           /\ dec' = Fail(dec, ex.outcome)
    /\ dpc' = "done"
    /\ UNCHANGED <<serverVars, codecVars, clientVars>>

\* fd_in = os.open(archive_path, os.O_RDONLY), on a source whose reads may be short
DecodeOpen ==
    /\ dpc = "start"
    /\ dec.short
    /\ dpc' = "size"
    /\ UNCHANGED <<dec, fs, serverVars, codecVars, clientVars>>

DecodeSize ==
    /\ dpc = "size"
    /\ \E data \in Deliveries(fs[ArchivePath], dec.pos, FieldWidth) :
          dec' = SizeRead(dec, data)
    /\ dpc' = Then(dec', "namelen")
    /\ UNCHANGED <<fs, serverVars, codecVars, clientVars>>

DecodeNameLen ==
    /\ dpc = "namelen"
    /\ \E data \in Deliveries(fs[ArchivePath], dec.pos, FieldWidth) :
          dec' = NameLenRead(dec, data)
    /\ dpc' = Then(dec', "name")
    /\ UNCHANGED <<fs, serverVars, codecVars, clientVars>>

\* os.read with a negative length raises OSError
DecodeName ==
    /\ dpc = "name"
    /\ IF dec.filename_len < 0 THEN dec' = Fail(dec, "OSError")
       ELSE \E data \in Deliveries(fs[ArchivePath], dec.pos, dec.filename_len) :
               dec' = NameRead(dec, data)
    /\ dpc' = Then(dec', "open")
    /\ UNCHANGED <<fs, serverVars, codecVars, clientVars>>

\* fd_out = os.open(filename, O_WRONLY | O_CREAT | O_TRUNC); remaining = filesize
DecodeCreate ==
    /\ dpc = "open"
    /\ IF CanCreate(dec.filename)
       THEN /\ fs' = FsPut(fs, dec.filename, <<>>)
            /\ dec' = [dec EXCEPT !.remaining = dec.filesize]
       ELSE /\ fs' = fs
            /\ dec' = Fail(dec, "SystemExit")
    /\ dpc' = Then(dec', "copy")
    /\ UNCHANGED <<serverVars, codecVars, clientVars>>

\* while remaining > 0: one read and one write; an empty read ends extract
DecodeCopy ==
    /\ dpc = "copy"
    /\ dec.remaining > 0
    /\ \E chunk \in Deliveries(fs[ArchivePath], dec.pos, Min(dec.remaining, ExtractChunk)) :
          IF chunk = <<>>
          THEN /\ dec' = Fail(dec, "OSError")
               /\ fs' = fs
          ELSE /\ dec' = [dec EXCEPT !.pos = @ + Len(chunk), !.remaining = @ - Len(chunk)]
               /\ fs' = FsPut(fs, dec.filename, fs[dec.filename] \o chunk)
    /\ dpc' = Then(dec', "copy")
    /\ UNCHANGED <<serverVars, codecVars, clientVars>>

\* the loop is over: extract returns
DecodeReturn ==
    /\ dpc = "copy"
    /\ dec.remaining <= 0
    /\ dec' = Fail(dec, "ok")
    /\ dpc' = "done"
    /\ UNCHANGED <<fs, serverVars, codecVars, clientVars>>

DecodeInit ==
    /\ ServerIdle
    /\ CodecIdle
    /\ ClientIdle
    /\ dpc = "start"
    /\ \E c \in Containers, short \in BOOLEAN :
          /\ dec = DecodeLocals(c, short)
          /\ fs = [q \in {ArchivePath} |-> c]

DecodeNext ==
    \/ DecodeWhole
    \/ DecodeOpen
    \/ DecodeSize
    \/ DecodeNameLen
    \/ DecodeName
    \/ DecodeCreate
    \/ DecodeCopy
    \/ DecodeReturn

DecodeSpec == DecodeInit /\ [][DecodeNext]_vars

(***************************************************************************)
(* FTClient: the archive, then the session on one connection               *)
(***************************************************************************)
Call(op, data) == [op |-> op, data |-> data]

\* s = socket.create_connection((serverHost, serverPort)), once the archive
\* is written; a refused connection ends the client
ClientConnect ==
    /\ cpc = "idle"
    /\ apc = "archived"
    /\ \E ok \in BOOLEAN :
          IF ok THEN wire' = Append(wire, Call("connect", <<>>)) /\ cpc' = "metadata"
          ELSE wire' = wire /\ cpc' = "exit"
    /\ UNCHANGED <<bytesSent, fs, serverVars, codecVars, decodeVars>>

\* fileSize = os.path.getsize(archiveName); s.sendall(metadata)
ClientMetadata ==
    /\ cpc = "metadata"
    /\ wire' = Append(wire, Call("sendall", Metadata(ArchivePath, Len(fs[ArchivePath]))))
    /\ cpc' = "body"
    /\ UNCHANGED <<bytesSent, fs, serverVars, codecVars, decodeVars>>

\* chunk = os.read(fd_in, 4096); s.sendall(chunk); bytesSent += len(chunk).
\* A failed sendall ends the client
ClientSend ==
    /\ cpc = "body"
    /\ OsRead(fs[ArchivePath], bytesSent, SendChunk) # <<>>
    /\ \E ok \in BOOLEAN :
          IF ok
          THEN /\ wire' = Append(wire, Call("sendall", OsRead(fs[ArchivePath], bytesSent, SendChunk)))
               /\ bytesSent' = bytesSent + Len(OsRead(fs[ArchivePath], bytesSent, SendChunk))
               /\ cpc' = "body"
          ELSE /\ wire' = wire
               /\ bytesSent' = bytesSent
               /\ cpc' = "exit"
    /\ UNCHANGED <<fs, serverVars, codecVars, decodeVars>>

\* if not chunk: break
ClientBodyEOF ==
    /\ cpc = "body"
    /\ OsRead(fs[ArchivePath], bytesSent, SendChunk) = <<>>
    /\ cpc' = "shutdown"
    /\ UNCHANGED <<wire, bytesSent, fs, serverVars, codecVars, decodeVars>>

\* s.shutdown(socket.SHUT_WR)
ClientShutdown ==
    /\ cpc = "shutdown"
    /\ wire' = Append(wire, Call("shutdown", <<>>))
    /\ cpc' = "recv"
    /\ UNCHANGED <<bytesSent, fs, serverVars, codecVars, decodeVars>>

\* response = s.recv(1024).decode()
ClientRecv ==
    /\ cpc = "recv"
    /\ wire' = Append(wire, Call("recv", <<>>))
    /\ cpc' = "close"
    /\ UNCHANGED <<bytesSent, fs, serverVars, codecVars, decodeVars>>

\* s.close()
ClientClose ==
    /\ cpc = "close"
    /\ wire' = Append(wire, Call("close", <<>>))
    /\ cpc' = "closed"
    /\ UNCHANGED <<bytesSent, fs, serverVars, codecVars, decodeVars>>

ClientNext ==
    \/ ArchiveOpen
    \/ ArchiveMissing
    \/ ArchiveHeader
    \/ ArchiveRead
    \/ ArchiveEOF
    \/ ArchiveDone
    \/ ClientConnect
    \/ ClientMetadata
    \/ ClientSend
    \/ ClientBodyEOF
    \/ ClientShutdown
    \/ ClientRecv
    \/ ClientClose

ClientSpec == CodecInit /\ [][ClientNext]_vars

(***************************************************************************)
(* Properties                                                              *)
(***************************************************************************)
Count(seq, x) == Cardinality({i \in 1..Len(seq) : seq[i] = x})

Closed(c) == gone[c] # None

Reason(c) == gone[c][1].reason

\* C1: a data arrival that leaves fewer than two newlines in the buffer of a
\* connection awaiting its metadata keeps the connection open and waiting:
\* no connection is closed because its metadata line has not yet arrived whole
C1_PartialMetadataWaits ==
    \A c \in Conns : Closed(c) => Reason(c) # "ValueError: unpack"

\* C2: whatever bytes a client sends, the failure closes only its connection:
\* the server process is never ended by SystemExit
C2_ServerSurvivesInput == pc # "SystemExit"

\* C3: of two connections open at the same time, one closed for its
\* malformed header, the other sending a well-formed session and neither
\* disconnected, reported exceptional nor hit by an I/O failure, the second
\* ends acknowledged, with its saved artifact holding exactly the body it sent
C3_WellFormedCompletes ==
    \A c \in Conns :
        ( /\ Closed(c)
          /\ peer[c].script \in Sessions
          /\ Reason(c) \notin {"ConnectionError", "Exceptional condition", "OSError"}
          /\ \E d \in Conns \ {c} :
                /\ {c, d} \in together
                /\ peer[d].script \in MalformedHeaders
                /\ Closed(d)
                /\ Reason(d) = "ValueError: int" )
        => /\ Reason(c) = "Transfer complete"
           /\ Len(sent[c]) = 1
           /\ fs[sent[c][1]] = Split2(peer[c].script)[3]

\* C4: an acknowledgment is sent at most once per connection, only after the
\* received count has reached the declared size, the output file is closed
\* and the extraction has returned, and the connection is closed and
\* deregistered in the same event; a connection that ends otherwise is sent
\* none
C4_AckOnlyAfterExtraction ==
    \A c \in Conns :
        /\ Len(sent[c]) <= 1
        /\ Count(log[c], "ack") = Len(sent[c])
        /\ sent[c] # <<>> =>
              /\ log[c] = <<"open", "fclose", "extract", "extracted", "ack", "close">>
              /\ Closed(c)
              /\ Reason(c) = "Transfer complete"
              /\ gone[c][1].received >= gone[c][1].file_size[1]
              /\ handles[c].closed
              /\ c \notin DOMAIN clients
              /\ ~InList(read_list, c)
              /\ c \in closedSocks
        /\ (Closed(c) /\ Reason(c) # "Transfer complete") => sent[c] = <<>>

C4_Witness == \E c \in Conns : sent[c] # <<>>

\* C6: the bytes written for a connection never exceed its declared size:
\* 0 <= received <= file_size for every connection receiving its body, and for
\* every connection closed while receiving it
C6_ReceivedWithinSize ==
    \A c \in Conns :
        /\ (c \in DOMAIN clients /\ clients[c].state = "data") =>
              /\ 0 <= clients[c].received
              /\ clients[c].received <= clients[c].file_size[1]
              /\ c \in DOMAIN handles => handles[c].pos <= clients[c].file_size[1]
        /\ (Closed(c) /\ gone[c][1].state = "data") =>
              /\ 0 <= gone[c][1].received
              /\ gone[c][1].received <= gone[c][1].file_size[1]

\* C7: an output file that was opened is closed exactly once: it is closed
\* when its connection has left the registry, and it is never released twice
C7_HandleClosedOnce ==
    \A h \in DOMAIN handles :
        /\ Count(log[h], "fclose") <= 1
        /\ handles[h].closed <=> Count(log[h], "fclose") = 1
        /\ h \notin DOMAIN clients => handles[h].closed

C7_Witness ==
    \E h \in DOMAIN handles :
        /\ Closed(h)
        /\ Reason(h) = "ConnectionError"
        /\ handles[h].closed

\* C8: once recv has returned no bytes on a socket, the socket is closed and
\* absent from the registry and the monitored list, no extraction was run for
\* it and no acknowledgment was sent on it
C8_DisconnectCloses ==
    \A c \in eof :
        /\ c \in closedSocks
        /\ c \notin DOMAIN clients
        /\ ~InList(read_list, c)
        /\ sent[c] = <<>>
        /\ Count(log[c], "extract") = 0

C8_Witness ==
    \E c \in eof :
        /\ Closed(c)
        /\ gone[c][1].state = "data"
        /\ gone[c][1].received < gone[c][1].file_size[1]

\* C9: whatever sockets select reports readable and exceptional, the loop
\* goes on to its next iteration: run is never left by the ValueError of
\* read_list.remove
C9_LoopContinues == pc # "ValueError: remove"

\* the bytes of a file of the sender
Content(f) == FileRead(f, 0, f.st_size)

\* n as exactly FieldWidth decimal characters, zero-padded
Field(n) == [i \in 1..FieldWidth |-> 48 + ((n \div (10 ^ (FieldWidth - i))) % 10)]

\* the start of the record the claim describes for a file: two fields of
\* FieldWidth characters, then the base name
ClaimedHeader(f) == Field(f.st_size) \o Field(Len(Basename(f.path))) \o Basename(f.path)

RECURSIVE ClaimedRecords(_, _)
ClaimedRecords(files, n) ==
    IF n = 0 THEN <<>>
    ELSE ClaimedRecords(files, n - 1)
            \o ClaimedHeader(FileAt(files[n])) \o Content(FileAt(files[n]))

RECURSIVE ClaimedLength(_, _)
ClaimedLength(files, n) ==
    IF n = 0 THEN 0
    ELSE ClaimedLength(files, n - 1)
            + 2 * FieldWidth + Len(Basename(files[n])) + FileAt(files[n]).st_size

\* the container the claim describes once `offset` bytes of file `index` are
\* copied
ClaimedSoFar ==
    IF apc = "read"
    THEN ClaimedRecords(job.files, job.index - 1)
            \o ClaimedHeader(FileAt(job.files[job.index]))
            \o FileRead(FileAt(job.files[job.index]), 0, job.offset)
    ELSE ClaimedRecords(job.files, job.index)

LargestField == 10 ^ FieldWidth - 1

\* C5: extracting the container made of a list of files yields, for every
\* file of the list, an artifact named 'new_' + its base name that holds the
\* file's bytes
C5_RoundTrip ==
    apc = "extracted" =>
        /\ result = "ok"
        /\ \A i \in 1..Len(job.files) :
              LET name == NewPrefix \o Basename(job.files[i])
              IN  /\ name \in DOMAIN fs
                  /\ fs[name] = Content(FileAt(job.files[i]))

\* C10 as stated: for every list of existing files the container is the
\* concatenation of their records, each with a header of two 8-character
\* fields, and its length is the sum of 16 + name length + size
C10_ContainerLayout ==
    apc \in {"read", "next", "archived"} =>
        /\ fs[ArchivePath] = ClaimedSoFar
        /\ apc = "archived" => Len(fs[ArchivePath]) = ClaimedLength(job.files, Len(job.files))

\* C10 amended: the same, for lists of files of at most 99,999,999 bytes each
C10_ContainerLayoutBounded ==
    ( /\ apc \in {"read", "next", "archived"}
      /\ \A i \in 1..job.index : FileAt(job.files[i]).st_size <= LargestField )
    => /\ fs[ArchivePath] = ClaimedSoFar
       /\ apc = "archived" => Len(fs[ArchivePath]) = ClaimedLength(job.files, Len(job.files))

C10_Witness ==
    /\ apc = "archived"
    /\ Len(job.files) >= 2
    /\ \E i \in 1..Len(job.files) : FileAt(job.files[i]).st_size > ReadChunk

\* the container the decoder was given
Source == [q \in {ArchivePath} |-> dec.src]

AllDigits(field) == \A i \in 1..Len(field) : IsDigit(field[i])

SizeOf(c) == DigitsVal(SubSeq(c, 1, FieldWidth), 0)

NameLenOf(c) == DigitsVal(SubSeq(c, FieldWidth + 1, 2 * FieldWidth), 0)

\* the container ends inside one of the two fixed fields of its record
TruncatedInField(c) == Len(c) < 2 * FieldWidth

\* the container holds the header and name of its record, and fewer content
\* bytes than the record declares
TruncatedInContent(c) ==
    /\ Len(c) >= 2 * FieldWidth
    /\ AllDigits(SubSeq(c, 1, 2 * FieldWidth))
    /\ NameLenOf(c) >= 1
    /\ Len(c) >= 2 * FieldWidth + NameLenOf(c)
    /\ Len(c) < 2 * FieldWidth + NameLenOf(c) + SizeOf(c)

FieldOutOfRange(c) ==
    /\ Len(c) >= 2 * FieldWidth
    /\ \/ ~AllDigits(SubSeq(c, 1, 2 * FieldWidth))
       \/ Len(c) < 2 * FieldWidth + NameLenOf(c)
       \/ Len(c) < 2 * FieldWidth + NameLenOf(c) + SizeOf(c)

\* C12: extract of a record whose size or name-length field is not a
\* non-negative decimal number, or declares more bytes than the container
\* holds, does not return successfully
C12_MalformedLengthFails ==
    (dpc = "done" /\ ~dec.short /\ FieldOutOfRange(dec.src)) => dec.outcome # "ok"

\* C17: extract whose reads may return fewer bytes than asked for ends with
\* the outcome and the files of extract whose reads return all that is
\* present
C17_DeliveryInvariant ==
    (dpc = "done" /\ dec.short) =>
        /\ dec.outcome = Extract(Source, ArchivePath).outcome
        /\ fs = Extract(Source, ArchivePath).fs

\* the positions of the calls of one kind on the client's socket
Calls(op) == {i \in 1..Len(wire) : wire[i].op = op}

\* the bytes of the sendall calls after the first, up to call n
RECURSIVE BodySent(_)
BodySent(n) ==
    IF n < 3 THEN <<>>
    ELSE BodySent(n - 1) \o (IF wire[n].op = "sendall" THEN wire[n].data ELSE <<>>)

\* C14: on the client's socket the first send is the whole metadata line
\* (name, newline, size of the archive, newline); the sends after it carry the
\* archive's bytes in order; the half-close follows the last of them, when
\* their count is the declared size; one recv follows the half-close and the
\* close follows the recv
C14_ClientOrder ==
    /\ \A i \in 1..Len(wire) : wire[i].op = "connect" <=> i = 1
    /\ Len(wire) >= 2 =>
          /\ wire[2].op = "sendall"
          /\ Len(Split2(wire[2].data)) = 3
          /\ Split2(wire[2].data)[1] = ArchivePath
          /\ ParseInt(Split2(wire[2].data)[2]) = [ok |-> TRUE, val |-> Len(fs[ArchivePath])]
          /\ Split2(wire[2].data)[3] = <<>>
    /\ wire # <<>> => BodySent(Len(wire)) = Take(fs[ArchivePath], bytesSent)
    /\ \A i \in Calls("shutdown") :
          /\ \A j \in Calls("sendall") : j < i
          /\ BodySent(i) = fs[ArchivePath]
          /\ Len(BodySent(i)) = ParseInt(Split2(wire[2].data)[2]).val
    /\ Cardinality(Calls("shutdown")) <= 1
    /\ Cardinality(Calls("recv")) <= 1
    /\ \A i \in Calls("recv") : i - 1 \in Calls("shutdown")
    /\ \A i \in Calls("close") : i - 1 \in Calls("recv") /\ i = Len(wire)
    /\ cpc = "closed" <=> Calls("close") # {}

C14_Witness ==
    /\ cpc = "closed"
    /\ Cardinality(Calls("sendall")) >= 3

\* the declared size and the received count of a connection, registered or closed
DeclaredSize(c) == IF c \in DOMAIN clients THEN clients[c].file_size[1] ELSE gone[c][1].file_size[1]

ReceivedOf(c) == IF c \in DOMAIN clients THEN clients[c].received ELSE gone[c][1].received

\* the bytes the peer of c sends after the second newline
BodyOf(c) == Split2(peer[c].script)[3]

Completed(c) == Count(log[c], "extract") >= 1

\* C13: when a connection completes, its saved file holds the first file_size
\* bytes that followed the second newline, and the count of body bytes equals
\* file_size; a connection still receiving its body has received fewer
C13_BodySavedInOrder ==
    \A c \in Conns :
        /\ Completed(c) =>
              /\ handles[c].saved = Take(BodyOf(c), DeclaredSize(c))
              /\ ReceivedOf(c) = DeclaredSize(c)
        /\ (c \in DOMAIN clients /\ clients[c].state = "data" /\ ~Completed(c)) =>
              clients[c].received < clients[c].file_size[1]

\* C15: every file the server has created lies directly in its working
\* directory: no path it opened for writing holds a directory separator
C15_FilesInWorkingDirectory ==
    \A path \in DOMAIN fs : \A i \in 1..Len(path) : path[i] # Slash

\* the socket the loop of run dispatches next
Handled == IF readable # <<>> THEN Head(readable) ELSE Head(exceptional)

\* C16: the event handled for one socket leaves the state, the registration
\* and the output handle of every other connection as they were; a connection
\* is added only by accept, with a fresh state
C16_OthersUnchanged ==
    [][ pc = "dispatch" =>
          \A d \in Conns \ {Handled} :
              /\ d \in DOMAIN clients =>
                    /\ d \in DOMAIN clients'
                    /\ clients'[d] = clients[d]
                    /\ InList(read_list', d)
              /\ (d \notin DOMAIN clients /\ d \in DOMAIN clients') =>
                    /\ Handled = LISTEN
                    /\ DOMAIN clients' = DOMAIN clients \cup {d}
                    /\ clients'[d].state = "header"
                    /\ clients'[d].buffer = <<>>
                    /\ clients'[d].received = 0
                    /\ clients'[d].fd_out = None
              /\ d \in DOMAIN handles => handles'[d] = handles[d] ]_vars

C16_Witness ==
    \E c, d \in Conns :
        /\ {c, d} \in together
        /\ c # d
        /\ Closed(d)
        /\ c \in DOMAIN clients
        /\ clients[c].state = "data"
        /\ clients[c].received > 0

\* C18: two registered connections never hold open output files of the same
\* path, and the file a completed connection saved holds the body bytes that
\* connection wrote
C18_OutputsDisjoint ==
    \A c \in Conns :
        /\ \A d \in Conns \ {c} :
              ( /\ c \in DOMAIN clients /\ d \in DOMAIN clients
                /\ clients[c].fd_out # None /\ clients[d].fd_out # None
                /\ ~handles[c].closed /\ ~handles[d].closed )
              => handles[c].path # handles[d].path
        /\ Completed(c) => handles[c].saved = Take(BodyOf(c), ReceivedOf(c))

\* C19: when run is about to call select, a registered connection in state
\* 'header' has no archive name, file size or output file and has received
\* nothing; one in state 'data' has all three, its file open, an empty buffer
\* and received < file_size
C19_PhaseConsistent ==
    pc = "select" =>
        \A c \in DOMAIN clients :
            /\ clients[c].state \in {"header", "data"}
            /\ clients[c].state = "header" =>
                  /\ clients[c].archive_name = None
                  /\ clients[c].file_size = None
                  /\ clients[c].fd_out = None
                  /\ clients[c].received = 0
            /\ clients[c].state = "data" =>
                  /\ clients[c].archive_name # None
                  /\ clients[c].file_size # None
                  /\ clients[c].fd_out # None
                  /\ ~handles[clients[c].fd_out[1]].closed
                  /\ clients[c].buffer = <<>>
                  /\ clients[c].received < clients[c].file_size[1]

C19_Witness ==
    /\ pc = "select"
    /\ \E c, d \in DOMAIN clients :
          /\ clients[c].state = "data"
          /\ clients[c].received > 0
          /\ clients[d].state = "header"

\* C20: the monitored list is the listening socket and the sockets of the
\* registry, each once, none of them closed
C20_MonitoredIsRegistry ==
    /\ {read_list[i] : i \in 1..Len(read_list)} = {LISTEN} \cup DOMAIN clients
    /\ Len(read_list) = Cardinality(DOMAIN clients) + 1
    /\ \A i \in 1..Len(read_list) : read_list[i] \notin closedSocks

====
